---- MODULE Spec2Model ----
(***************************************************************************)
(* Model of crates/core/src/conn/joined.rs: JoinedListener (bind /         *)
(* try_bind of two listeners in turn), JoinedAcceptor (holdings and the    *)
(* select!-raced accept over two acceptors) and JoinedStream (the tagged   *)
(* union wrapping the connection of the winning source).                   *)
(***************************************************************************)
EXTENDS Integers, Sequences, FiniteSets, TLC

\* ------------------------------------------------------------------ bounds

\* Connections and accept failures the environment produces in one run of Spec.
MaxEvents == 3
\* Results a source may hold ready at once in FairSpec (its arrivals never end).
MaxPending == 1
\* Operations the caller invokes on the JoinedStream it took (StreamSpec).
MaxOps == 3

\* ------------------------------------------------------------------ values

\* The two fields of JoinedListener / JoinedAcceptor.
Sources == {"a", "b"}

\* The branches of the select! in accept, numbered as tokio numbers them.
Branches == {0, 1}

\* Outcomes of a sub-listener's try_bind: Ok, or an io::Error kind.
BindErrs == {"AddrInUse", "PermissionDenied"}
BindOutcomes == {"ok"} \cup BindErrs

\* Holdings an underlying acceptor may expose (a plain acceptor has one, an
\* acceptor that is itself joined has several).
HoldingSeqs == {<<"h1">>, <<"h2", "h1">>}

\* What a client sends on a connection (the test writes 50 and 100).
Payloads == {50, 100}

\* io::Error kinds an underlying accept may resolve to.
AcceptErrs == {"ConnectionAborted", "TooManyFiles"}

\* Names for the connections alive at once: those of a run of Spec, or those
\* queued on the two sources plus the one the accept loop of FairSpec holds.
LoopIds == 1 .. (2 * MaxPending + 1)
ConnIds == (1 .. MaxEvents) \cup LoopIds

VARIABLES
    entry,      \* the Listener method called on the JoinedListener
    lpc,        \* where that call is
    sub,        \* each sub-listener: unbound, binding, bound, failed, dropped
    calls,      \* how often each sub-listener's try_bind was invoked
    subres,     \* the result of each sub-listener's try_bind: Ok(its holdings) or Err
    tb,         \* the result of JoinedListener::try_bind
    ret,        \* what the caller of bind / try_bind got
    joined,     \* the JoinedAcceptor: whether it exists, and its holdings field
    queue,      \* per source, the accept results that are ready, oldest first
    held,       \* per source, a result the in-flight accept took and has not returned
    apc,        \* where the accept call is
    start,      \* the branch the current poll of select! began at (0 outside a poll)
    polled,     \* the branches the current poll of select! has polled
    out,        \* the results accept returned to the caller, oldest first
    sent,       \* the connections clients made: id, endpoint, payload
    nev,        \* connections and failures produced so far (Spec)
    cancelled,  \* the connections that were pending when an accept call was dropped
    spc,        \* the JoinedStream the caller took from a result: none, live, served, dropped
    js,         \* that JoinedStream while the caller has it
    res,        \* what the last operation on it returned
    gone,       \* the connection it wrapped, as serve or the drop took it
    bare,       \* the same connection put through the same operations unwrapped
    bres        \* what the last of those operations returned

vars == <<entry, lpc, sub, calls, subres, tb, ret, joined, queue, held, apc,
          start, polled, out, sent, nev, cancelled, spc, js, res, gone, bare, bres>>

bindVars == <<entry, lpc, sub, calls, subres, tb, ret, joined>>
acceptVars == <<queue, held, apc, start, polled, out, sent, nev, cancelled>>
streamVars == <<spc, js, res, gone, bare, bres>>

\* ------------------------------------------------------------------ data

NoConn == [id |-> 0, payload |-> 0]

\* The four bytes of a 32-bit integer, most significant first, as the test's
\* client writes them.
I32Bytes(p) ==
    <<(p \div 16777216) % 256, (p \div 65536) % 256, (p \div 256) % 256, p % 256>>

\* A connection as a sub-acceptor hands it out: what the client sent is there
\* to be read, nothing was written, and no operation was invoked on it yet.
\* `log` lists the operations invoked on the connection, with their arguments.
Conn(id, p) ==
    [id |-> id, payload |-> p, rx |-> I32Bytes(p), tx |-> <<>>, wire |-> <<>>,
     shut |-> FALSE, ver |-> "unknown", log |-> <<>>]

\* Accepted<C>: a connection with its address metadata.
Accepted(c, l, r) == [conn |-> c, local_addr |-> l, remote_addr |-> r]

\* Accepted::map_conn: the connection replaced by its image c under the mapping
\* function, the metadata kept.
map_conn(acc, c) ==
    [conn |-> c, local_addr |-> acc.local_addr, remote_addr |-> acc.remote_addr]

\* The variants of JoinedStream.
JoinedStream_A(c) == [variant |-> "A", inner |-> c]
JoinedStream_B(c) == [variant |-> "B", inner |-> c]

\* No JoinedStream in the caller's hands.
NoStream == [variant |-> "none", inner |-> NoConn]

\* What an operation on a connection returns: Poll::Pending, or Ready with a
\* byte count and the bytes put in the caller's buffer (poll_read, poll_write),
\* with a protocol version (version), or with an io::Error kind.
IoRes(tag, n, data, info) == [tag |-> tag, n |-> n, data |-> data, info |-> info]
NoIo == IoRes("none", 0, <<>>, "")

\* IoResult<T>.
Ok(v) == [kind |-> "ok", val |-> v]
Err(e) == [kind |-> "err", err |-> e]
NoResult == [kind |-> "none"]

Other(s) == IF s = "a" THEN "b" ELSE "a"

\* ------------------------------------------------------------------ bind

NoAcceptor == [live |-> FALSE, holdings |-> <<>>]

\* Mutant: b's holdings chained before a's.
ChainHoldingsSwapped(ha, hb) == hb \o ha

\* a.holdings().iter().chain(b.holdings().iter()).cloned().collect()
ChainHoldings(ha, hb) == ha \o hb

\* JoinedAcceptor { a, b, holdings }
JoinedAcceptor(ha, hb) == [live |-> TRUE, holdings |-> ChainHoldings(ha, hb)]

\* Mutant: bind hands the result of try_bind on without unwrapping it.
UnwrapSkipped(r) == r

\* Result::unwrap in bind: the value, or a panic.
Unwrap(r) == IF r.kind = "ok" THEN r ELSE [kind |-> "panic"]

\* What the method entered hands its caller once try_bind has result r.
Finish(m, r) == IF m = "bind" THEN Unwrap(r) ELSE r

\* Mutant: b is bound whatever a's try_bind resolved to.
ContinueAlways(outcome) == TRUE

\* Whether try_bind goes on to bind b after a's try_bind resolved to `outcome`
\* (the ? on line 101 returns on an error).
ContinueAfterA(outcome) == outcome = "ok"

Init ==
    /\ entry = "none"
    /\ lpc = "new"
    /\ sub = [s \in Sources |-> "unbound"]
    /\ calls = [s \in Sources |-> 0]
    /\ subres = [s \in Sources |-> NoResult]
    /\ tb = NoResult
    /\ ret = NoResult
    /\ joined = NoAcceptor
    /\ queue = [s \in Sources |-> <<>>]
    /\ held = [s \in Sources |-> <<>>]
    /\ apc = "idle"
    /\ start = 0
    /\ polled = {}
    /\ out = <<>>
    /\ sent = {}
    /\ nev = 0
    /\ cancelled = {}
    /\ spc = "none"
    /\ js = NoStream
    /\ res = NoIo
    /\ gone = NoConn
    /\ bare = NoConn
    /\ bres = NoIo

\* bind / try_bind is called on the JoinedListener (which it consumes): the
\* body runs to its first await, self.a.try_bind().
Bind(m) ==
    /\ lpc = "new"
    /\ entry' = m
    /\ lpc' = "await_a"
    /\ sub' = [sub EXCEPT !["a"] = "binding"]
    /\ calls' = [calls EXCEPT !["a"] = @ + 1]
    /\ UNCHANGED <<subres, tb, ret, joined, acceptVars, streamVars>>

\* a's try_bind resolves. On an error the ? returns it (b is dropped unbound with
\* the listener); otherwise the body runs on to its second await, self.b.try_bind().
ResumeA(outcome, h) ==
    /\ lpc = "await_a"
    /\ subres' = [subres EXCEPT !["a"] = IF outcome = "ok" THEN Ok(h) ELSE Err(outcome)]
    /\ IF ContinueAfterA(outcome)
       THEN /\ sub' = [sub EXCEPT !["a"] = IF outcome = "ok" THEN "bound" ELSE "failed",
                                  !["b"] = "binding"]
            /\ calls' = [calls EXCEPT !["b"] = @ + 1]
            /\ lpc' = "await_b"
            /\ UNCHANGED <<tb, ret>>
       ELSE /\ sub' = [sub EXCEPT !["a"] = "failed"]
            /\ tb' = Err(outcome)
            /\ ret' = Finish(entry, Err(outcome))
            /\ lpc' = "done"
            /\ UNCHANGED calls
    /\ UNCHANGED <<entry, joined, acceptVars, streamVars>>

\* The holdings of a bound sub-acceptor (Acceptor::holdings of a and of b).
SubHoldings(s) == IF subres[s].kind = "ok" THEN subres[s].val ELSE <<>>

\* Mutant: a failure of b is tolerated and the acceptor is built from a alone.
ResumeBTolerant(outcome, h) ==
    /\ lpc = "await_b"
    /\ subres' = [subres EXCEPT !["b"] = IF outcome = "ok" THEN Ok(h) ELSE Err(outcome)]
    /\ sub' = [sub EXCEPT !["b"] = IF outcome = "ok" THEN "bound" ELSE "failed"]
    /\ LET hb == IF outcome = "ok" THEN h ELSE <<>>
       IN /\ joined' = JoinedAcceptor(SubHoldings("a"), hb)
          /\ tb' = Ok(JoinedAcceptor(SubHoldings("a"), hb))
          /\ ret' = Finish(entry, Ok(JoinedAcceptor(SubHoldings("a"), hb)))
    /\ lpc' = "done"
    /\ UNCHANGED <<entry, calls, acceptVars, streamVars>>

\* Mutant: on an error of b the body releases a's acceptor itself before it
\* returns the error.
ResumeBReleases(outcome, h) ==
    /\ lpc = "await_b"
    /\ subres' = [subres EXCEPT !["b"] = IF outcome = "ok" THEN Ok(h) ELSE Err(outcome)]
    /\ IF outcome = "ok"
       THEN /\ sub' = [sub EXCEPT !["b"] = "bound"]
            /\ joined' = JoinedAcceptor(SubHoldings("a"), h)
            /\ tb' = Ok(JoinedAcceptor(SubHoldings("a"), h))
            /\ ret' = Finish(entry, Ok(JoinedAcceptor(SubHoldings("a"), h)))
       ELSE /\ sub' = [sub EXCEPT !["b"] = "failed",
                                  !["a"] = IF @ = "bound" THEN "released" ELSE @]
            /\ tb' = Err(outcome)
            /\ ret' = Finish(entry, Err(outcome))
            /\ UNCHANGED joined
    /\ lpc' = "done"
    /\ UNCHANGED <<entry, calls, acceptVars, streamVars>>

\* b's try_bind resolves. On an error the ? returns it and a's acceptor, a local
\* of the body, is dropped; otherwise the holdings are chained and the
\* JoinedAcceptor is built and returned.
ResumeB(outcome, h) ==
    /\ lpc = "await_b"
    /\ subres' = [subres EXCEPT !["b"] = IF outcome = "ok" THEN Ok(h) ELSE Err(outcome)]
    /\ IF outcome = "ok"
       THEN /\ sub' = [sub EXCEPT !["b"] = "bound"]
            /\ joined' = JoinedAcceptor(SubHoldings("a"), h)
            /\ tb' = Ok(JoinedAcceptor(SubHoldings("a"), h))
            /\ ret' = Finish(entry, Ok(JoinedAcceptor(SubHoldings("a"), h)))
       ELSE /\ sub' = [sub EXCEPT !["b"] = "failed",
                                  !["a"] = IF @ = "bound" THEN "dropped" ELSE @]
            /\ tb' = Err(outcome)
            /\ ret' = Finish(entry, Err(outcome))
            /\ UNCHANGED joined
    /\ lpc' = "done"
    /\ UNCHANGED <<entry, calls, acceptVars, streamVars>>

\* Mutant: holdings() forwards to the first sub-acceptor instead of reading
\* the field.
holdingsOfA == SubHoldings("a")

\* JoinedAcceptor::holdings
holdings == joined.holdings

\* ------------------------------------------------------------------ accept

\* Mutant: both branches of the select! wait on a's accept.
BranchSourceOnlyA(i) == "a"

\* The sub-acceptor each branch of the select! awaits: self.a.accept() in the
\* first, self.b.accept() in the second.
BranchSource(i) == IF i = 0 THEN "a" ELSE "b"

\* A call of accept is pending: made, not yet returned and not dropped.
AcceptPending == apc \in {"woken", "polling", "suspended"}

\* Source s is idle: it has no ready result.
Idle(s) == queue[s] = <<>>

\* Mutant: each branch tags its connection with the other branch's variant.
BranchHandlerSwapped(i, accepted) ==
    IF accepted.kind = "err"
    THEN Err(accepted.err)
    ELSE IF i = 0
         THEN Ok(map_conn(accepted.val, JoinedStream_B(accepted.val.conn)))
         ELSE Ok(map_conn(accepted.val, JoinedStream_A(accepted.val.conn)))

\* Mutant: a branch reports a failed accept as a new error of its own.
BranchHandlerWrapsErr(i, accepted) ==
    IF accepted.kind = "err"
    THEN Err("Other")
    ELSE IF i = 0
         THEN Ok(map_conn(accepted.val, JoinedStream_A(accepted.val.conn)))
         ELSE Ok(map_conn(accepted.val, JoinedStream_B(accepted.val.conn)))

\* Mutant: a branch builds a new Accepted around the tagged connection instead
\* of mapping the one it got, and fills in the addresses the wrong way round.
BranchHandlerRebuilds(i, accepted) ==
    IF accepted.kind = "err"
    THEN Err(accepted.err)
    ELSE IF i = 0
         THEN Ok(Accepted(JoinedStream_A(accepted.val.conn),
                          accepted.val.remote_addr, accepted.val.local_addr))
         ELSE Ok(Accepted(JoinedStream_B(accepted.val.conn),
                          accepted.val.remote_addr, accepted.val.local_addr))

\* The body of each branch: accepted? returns an error as it is, and a
\* connection is tagged with the branch's variant by map_conn.
BranchHandler(i, accepted) ==
    IF accepted.kind = "err"
    THEN Err(accepted.err)
    ELSE IF i = 0
         THEN Ok(map_conn(accepted.val, JoinedStream_A(accepted.val.conn)))
         ELSE Ok(map_conn(accepted.val, JoinedStream_B(accepted.val.conn)))

\* Mutant: a biased select!, every poll beginning at the first branch.
SelectStartBiased == {0}

\* The branches a poll of select! may begin at: without `biased;` tokio draws
\* the first branch at random on every poll.
SelectStart == Branches

\* Mutant: the race waits for every branch (a join, not a select).
SelectCompletesAll(h) == \A s \in Sources : h[s] # <<>>

\* select! completes as soon as one branch's future is ready: `h` is what the
\* branches' futures have produced in this call.
SelectCompletes(h) == \E s \in Sources : h[s] # <<>>

\* Polling a sub-acceptor's accept future: Ready with the oldest ready result,
\* which leaves the source's queue, or Pending with the queue untouched.
PollReady(q) == q # <<>>
\* Mutant: the sub-accept hands out the newest ready result, not the oldest.
PollTakeNewest(q) == q[Len(q)]

PollTake(q) == Head(q)
PollRest(q) == Tail(q)

NoHeld == [s \in Sources |-> <<>>]

FreeIds == ConnIds \ {c.id : c \in sent}
NextId == CHOOSE i \in FreeIds : \A j \in FreeIds : i <= j

\* A client connects to endpoint s and sends p: the connection is queued on s.
\* Connections are followed from the moment the JoinedAcceptor exists.
Connect(s, p) ==
    /\ joined.live
    /\ FreeIds # {}
    /\ queue' = [queue EXCEPT ![s] = Append(@, Ok(Accepted(Conn(NextId, p), s, "peer")))]
    /\ sent' = sent \cup {[id |-> NextId, src |-> s, payload |-> p]}
    /\ UNCHANGED <<bindVars, streamVars, held, apc, start, polled, out, cancelled>>

\* Source s has an accept failure ready: its next accept resolves to Err(e).
Fault(s, e) ==
    /\ joined.live
    /\ queue' = [queue EXCEPT ![s] = Append(@, Err(e))]
    /\ UNCHANGED <<bindVars, streamVars, held, apc, start, polled, out, sent, cancelled>>

Arrive(s, p) == nev < MaxEvents /\ nev' = nev + 1 /\ Connect(s, p)
Fail(s, e) == nev < MaxEvents /\ nev' = nev + 1 /\ Fault(s, e)

\* Mutant: an acceptor that has returned an error refuses every later call.
AcceptFused ==
    /\ ret.kind = "ok"
    /\ joined.live
    /\ apc = "idle"
    /\ \A k \in 1 .. Len(out) : out[k].kind # "err"
    /\ apc' = "woken"
    /\ polled' = {}
    /\ UNCHANGED <<bindVars, streamVars, queue, held, start, out, sent, nev, cancelled>>

\* The caller, holding the acceptor, calls accept(): the future of the select!
\* over both sub-accepts exists and is about to be polled.
Accept ==
    /\ ret.kind = "ok"
    /\ joined.live
    /\ apc = "idle"
    /\ apc' = "woken"
    /\ polled' = {}
    /\ UNCHANGED <<bindVars, streamVars, queue, held, start, out, sent, nev, cancelled>>

\* A poll of the select! begins at branch st.
SelectPoll(st) ==
    /\ apc = "woken"
    /\ st \in SelectStart
    /\ start' = st
    /\ polled' = {}
    /\ apc' = "polling"
    /\ UNCHANGED <<bindVars, streamVars, queue, held, out, sent, nev, cancelled>>

\* The next branch of the current poll, in order from `start`.
NextBranch == IF start \in polled THEN (start + 1) % 2 ELSE start

\* Mutant: both sub-accepts are driven before the winner is picked, so a result
\* the losing source had ready is taken from it and dropped with its future.
PollBranchEager ==
    /\ apc = "polling"
    /\ LET i == NextBranch
           s == BranchSource(i)
           ready == PollReady(queue[s])
       IN IF ready
          THEN /\ out' = Append(out, BranchHandler(i, PollTake(queue[s])))
               /\ queue' = [t \in Sources |-> IF PollReady(queue[t]) THEN PollRest(queue[t])
                                                                    ELSE queue[t]]
               /\ apc' = "idle"
               /\ polled' = {}
               /\ start' = 0
          ELSE /\ polled' = polled \cup {i}
               /\ apc' = IF polled \cup {i} = Branches THEN "suspended" ELSE "polling"
               /\ start' = IF polled \cup {i} = Branches THEN 0 ELSE start
               /\ UNCHANGED <<queue, out>>
    /\ UNCHANGED <<bindVars, streamVars, held, sent, nev, cancelled>>

\* The poll goes to its next branch. If the sub-accept is ready its result leaves
\* the source and, as that completes the select!, the branch's body runs and
\* accept returns; if not, the poll moves on, and after the last branch the call
\* is suspended.
PollBranch ==
    /\ apc = "polling"
    /\ LET i == NextBranch
           s == BranchSource(i)
           ready == held[s] = <<>> /\ PollReady(queue[s])
           h == IF ready THEN [held EXCEPT ![s] = <<PollTake(queue[s])>>] ELSE held
       IN /\ queue' = [queue EXCEPT ![s] = IF ready THEN PollRest(@) ELSE @]
          /\ IF ready /\ SelectCompletes(h)
             THEN /\ out' = Append(out, BranchHandler(i, h[s][1]))
                  /\ held' = NoHeld
                  /\ apc' = "idle"
                  /\ polled' = {}
                  /\ start' = 0
             ELSE /\ held' = h
                  /\ polled' = polled \cup {i}
                  /\ apc' = IF polled \cup {i} = Branches THEN "suspended" ELSE "polling"
                  /\ start' = IF polled \cup {i} = Branches THEN 0 ELSE start
                  /\ out' = out
    /\ UNCHANGED <<bindVars, streamVars, sent, nev, cancelled>>

\* A source the suspended call waits on became ready: the task is woken.
Wake ==
    /\ apc = "suspended"
    /\ \E s \in Sources : queue[s] # <<>>
    /\ apc' = "woken"
    /\ UNCHANGED <<bindVars, streamVars, queue, held, start, polled, out, sent, nev, cancelled>>

\* The results ready on either source.
PendingResults == UNION {{queue[s][k] : k \in 1 .. Len(queue[s])} : s \in Sources}

\* The caller drops the accept future between two polls: both sub-accept
\* futures are dropped with it.
CancelCall ==
    /\ apc \in {"woken", "suspended"}
    /\ apc' = "idle"
    /\ held' = NoHeld
    /\ polled' = {}
    /\ UNCHANGED <<bindVars, streamVars, queue, start, out, sent, nev>>

\* A cancellation, with the connections pending at that moment recorded.
Cancel ==
    /\ CancelCall
    /\ cancelled' = cancelled \cup {r.val.conn.id : r \in {q \in PendingResults : q.kind = "ok"}}

Next ==
    \/ \E m \in {"bind", "try_bind"} : Bind(m)
    \/ \E o \in BindOutcomes, h \in HoldingSeqs : ResumeA(o, h)
    \/ \E o \in BindOutcomes, h \in HoldingSeqs : ResumeB(o, h)
    \/ \E s \in Sources, p \in Payloads : Arrive(s, p)
    \/ \E s \in Sources, e \in AcceptErrs : Fail(s, e)
    \/ Accept
    \/ \E st \in Branches : SelectPoll(st)
    \/ PollBranch
    \/ Wake
    \/ Cancel

Spec == Init /\ [][Next]_vars

\* ------------------------------------------------------------------ the accept loop

\* What the test's client sends to each endpoint: 50 to the first, 100 to the second.
TestPayload(s) == IF s = "a" THEN 50 ELSE 100

\* An accept loop that never ends: clients keep connecting (a source holds at
\* most MaxPending ready results), and the caller is done with a result (the
\* stream handed on or dropped, the error logged) before it calls accept again.
ArriveF(s) == Len(queue[s]) < MaxPending /\ nev' = nev /\ Connect(s, TestPayload(s))
FailF(s, e) == Len(queue[s]) < MaxPending /\ nev' = nev /\ Fault(s, e)
AcceptF == out = <<>> /\ Accept
CancelF == CancelCall /\ UNCHANGED cancelled

DropResult ==
    /\ out # <<>>
    /\ out' = Tail(out)
    /\ sent' = IF Head(out).kind = "ok"
               THEN {c \in sent : c.id # Head(out).val.conn.inner.id}
               ELSE sent
    /\ UNCHANGED <<bindVars, streamVars, queue, held, apc, start, polled, nev, cancelled>>

NextF ==
    \/ \E m \in {"bind", "try_bind"} : Bind(m)
    \/ \E o \in BindOutcomes, h \in HoldingSeqs : ResumeA(o, h)
    \/ \E o \in BindOutcomes, h \in HoldingSeqs : ResumeB(o, h)
    \/ \E s \in Sources : ArriveF(s)
    \/ \E s \in Sources, e \in AcceptErrs : FailF(s, e)
    \/ AcceptF
    \/ \E st \in Branches : SelectPoll(st)
    \/ PollBranch
    \/ Wake
    \/ CancelF
    \/ DropResult

\* The loop calls accept again and again and drops what it got; a woken task is
\* polled and a poll runs to its end; and the random draw of the first branch
\* yields each branch again and again.
Fairness ==
    /\ WF_vars(AcceptF)
    /\ WF_vars(DropResult)
    /\ WF_vars(PollBranch)
    /\ WF_vars(Wake)
    /\ \A st \in Branches : SF_vars(SelectPoll(st))

FairSpec == Init /\ [][NextF]_vars /\ Fairness

\* ------------------------------------------------------------------ the wrapped connection

\* Capacities of the buffer a caller reads into, and buffers it writes.
ReadCaps == {1, 4}
WriteBufs == {<<7>>, <<8, 9>>}

\* How a poll of the connection may turn out.
PollOutcomes == {"ready", "pending", "err"}

\* What version() may find: no version, or the negotiated one.
Versions == {"HTTP_11", "HTTP_2"}
VersionOutcomes == {"None"} \cup Versions

\* Handlers and protocol configurations a caller may pass to serve, and how the
\* connection's serving loop may end.
Handlers == {"router", "fallback"}
Builders == {"default", "tuned"}
ServeOutcomes == {"ok", "err"}

\* One invocation of an operation on a connection, with its arguments.
Called(op, cap, buf, handler, builders) ==
    [op |-> op, cap |-> cap, buf |-> buf, handler |-> handler, builders |-> builders]

Min(x, y) == IF x <= y THEN x ELSE y

\* The operations of a connection type (what A and B implement). Each returns
\* the connection after the call and the call's result.

\* AsyncRead::poll_read: Ready moves up to `cap` unread bytes into the buffer.
Conn_poll_read(c, cap, o) ==
    LET c1 == [c EXCEPT !.log = Append(@, Called("poll_read", cap, <<>>, "", ""))]
        n == Min(cap, Len(c.rx))
    IN IF o = "ready"
       THEN [conn |-> [c1 EXCEPT !.rx = SubSeq(c.rx, n + 1, Len(c.rx))],
             res |-> IoRes("ready_ok", n, SubSeq(c.rx, 1, n), "")]
       ELSE IF o = "pending"
            THEN [conn |-> c1, res |-> IoRes("pending", 0, <<>>, "")]
            ELSE [conn |-> c1, res |-> IoRes("ready_err", 0, <<>>, "ConnectionReset")]

\* AsyncWrite::poll_write: Ready takes the whole buffer, unless the write side
\* was shut down.
Conn_poll_write(c, buf, o) ==
    LET c1 == [c EXCEPT !.log = Append(@, Called("poll_write", 0, buf, "", ""))]
    IN IF o = "ready" /\ ~c.shut
       THEN [conn |-> [c1 EXCEPT !.tx = c.tx \o buf],
             res |-> IoRes("ready_ok", Len(buf), <<>>, "")]
       ELSE IF o = "pending"
            THEN [conn |-> c1, res |-> IoRes("pending", 0, <<>>, "")]
            ELSE [conn |-> c1, res |-> IoRes("ready_err", 0, <<>>, "BrokenPipe")]

\* AsyncWrite::poll_flush: Ready puts the written bytes on the wire.
Conn_poll_flush(c, o) ==
    LET c1 == [c EXCEPT !.log = Append(@, Called("poll_flush", 0, <<>>, "", ""))]
    IN IF o = "ready"
       THEN [conn |-> [c1 EXCEPT !.wire = c.wire \o c.tx, !.tx = <<>>],
             res |-> IoRes("ready_ok", 0, <<>>, "")]
       ELSE IF o = "pending"
            THEN [conn |-> c1, res |-> IoRes("pending", 0, <<>>, "")]
            ELSE [conn |-> c1, res |-> IoRes("ready_err", 0, <<>>, "BrokenPipe")]

\* AsyncWrite::poll_shutdown: Ready flushes and closes the write side.
Conn_poll_shutdown(c, o) ==
    LET c1 == [c EXCEPT !.log = Append(@, Called("poll_shutdown", 0, <<>>, "", ""))]
    IN IF o = "ready"
       THEN [conn |-> [c1 EXCEPT !.wire = c.wire \o c.tx, !.tx = <<>>, !.shut = TRUE],
             res |-> IoRes("ready_ok", 0, <<>>, "")]
       ELSE IF o = "pending"
            THEN [conn |-> c1, res |-> IoRes("pending", 0, <<>>, "")]
            ELSE [conn |-> c1, res |-> IoRes("ready_err", 0, <<>>, "NotConnected")]

\* HttpConnection::version: the first call negotiates, later calls repeat what
\* was found.
Conn_version(c, o) ==
    LET c1 == [c EXCEPT !.log = Append(@, Called("version", 0, <<>>, "", ""))]
        v == IF c.ver = "unknown" THEN o ELSE c.ver
    IN [conn |-> [c1 EXCEPT !.ver = v], res |-> IoRes("version", 0, <<>>, v)]

\* HttpConnection::serve: takes the connection and runs its serving loop with
\* the handler and the protocol configuration, to the end.
Conn_serve(c, handler, builders, o) ==
    LET c1 == [c EXCEPT !.log = Append(@, Called("serve", 0, <<>>, handler, builders))]
    IN IF o = "ok"
       THEN [conn |-> [c1 EXCEPT !.rx = <<>>, !.shut = TRUE], res |-> IoRes("ready_ok", 0, <<>>, "")]
       ELSE [conn |-> c1, res |-> IoRes("ready_err", 0, <<>>, "ConnectionReset")]

\* ------------------------------------------------------------------ JoinedStream

\* Each operation of JoinedStream matches on the variant and invokes the same
\* operation on the connection inside. An operation on &mut self gives back the
\* stream as the call leaves it; serve takes the stream and gives back the
\* connection as it consumed it.

\* <JoinedStream as AsyncRead>::poll_read
poll_read(self, cap, o) ==
    IF self.variant = "A"
    THEN LET r == Conn_poll_read(self.inner, cap, o)
         IN [self |-> JoinedStream_A(r.conn), res |-> r.res]
    ELSE LET r == Conn_poll_read(self.inner, cap, o)
         IN [self |-> JoinedStream_B(r.conn), res |-> r.res]

\* Mutant: the B arm writes the buffer out again when the first write took it.
poll_writeRepeats(self, buf, o) ==
    IF self.variant = "A"
    THEN LET r == Conn_poll_write(self.inner, buf, o)
         IN [self |-> JoinedStream_A(r.conn), res |-> r.res]
    ELSE LET r == Conn_poll_write(Conn_poll_write(self.inner, buf, o).conn, buf, o)
         IN [self |-> JoinedStream_B(r.conn), res |-> r.res]

\* <JoinedStream as AsyncWrite>::poll_write
poll_write(self, buf, o) ==
    IF self.variant = "A"
    THEN LET r == Conn_poll_write(self.inner, buf, o)
         IN [self |-> JoinedStream_A(r.conn), res |-> r.res]
    ELSE LET r == Conn_poll_write(self.inner, buf, o)
         IN [self |-> JoinedStream_B(r.conn), res |-> r.res]

\* <JoinedStream as AsyncWrite>::poll_flush
poll_flush(self, o) ==
    IF self.variant = "A"
    THEN LET r == Conn_poll_flush(self.inner, o)
         IN [self |-> JoinedStream_A(r.conn), res |-> r.res]
    ELSE LET r == Conn_poll_flush(self.inner, o)
         IN [self |-> JoinedStream_B(r.conn), res |-> r.res]

\* Mutant: after a shutdown the stream is left as the other variant.
poll_shutdownRetags(self, o) ==
    IF self.variant = "A"
    THEN LET r == Conn_poll_shutdown(self.inner, o)
         IN [self |-> JoinedStream_B(r.conn), res |-> r.res]
    ELSE LET r == Conn_poll_shutdown(self.inner, o)
         IN [self |-> JoinedStream_A(r.conn), res |-> r.res]

\* <JoinedStream as AsyncWrite>::poll_shutdown
poll_shutdown(self, o) ==
    IF self.variant = "A"
    THEN LET r == Conn_poll_shutdown(self.inner, o)
         IN [self |-> JoinedStream_A(r.conn), res |-> r.res]
    ELSE LET r == Conn_poll_shutdown(self.inner, o)
         IN [self |-> JoinedStream_B(r.conn), res |-> r.res]

\* <JoinedStream as HttpConnection>::version
version(self, o) ==
    IF self.variant = "A"
    THEN LET r == Conn_version(self.inner, o)
         IN [self |-> JoinedStream_A(r.conn), res |-> r.res]
    ELSE LET r == Conn_version(self.inner, o)
         IN [self |-> JoinedStream_B(r.conn), res |-> r.res]

\* <JoinedStream as HttpConnection>::serve
serve(self, handler, builders, o) ==
    IF self.variant = "A"
    THEN Conn_serve(self.inner, handler, builders, o)
    ELSE Conn_serve(self.inner, handler, builders, o)

\* ------------------------------------------------------------------ using a stream

\* The caller takes the JoinedStream out of the first result accept returned.
\* From here on `bare` is the connection inside it, used without the wrapper.
TakeStream ==
    /\ spc = "none"
    /\ out # <<>>
    /\ out[1].kind = "ok"
    /\ spc' = "live"
    /\ js' = out[1].val.conn
    /\ bare' = out[1].val.conn.inner
    /\ UNCHANGED <<bindVars, acceptVars, res, gone, bres>>

\* The stream is there and the caller may go on using it.
CanUse == spc = "live" /\ Len(bare.log) < MaxOps

\* One operation on the stream through &mut self, and the same on `bare`.
Used(r, d) ==
    /\ js' = r.self
    /\ res' = r.res
    /\ bare' = d.conn
    /\ bres' = d.res
    /\ UNCHANGED <<bindVars, acceptVars, spc, gone>>

Read(cap, o) == CanUse /\ Used(poll_read(js, cap, o), Conn_poll_read(bare, cap, o))
Write(buf, o) == CanUse /\ Used(poll_write(js, buf, o), Conn_poll_write(bare, buf, o))
Flush(o) == CanUse /\ Used(poll_flush(js, o), Conn_poll_flush(bare, o))
Shutdown(o) == CanUse /\ Used(poll_shutdown(js, o), Conn_poll_shutdown(bare, o))
GetVersion(o) == CanUse /\ Used(version(js, o), Conn_version(bare, o))

\* serve(self, ..) takes the stream.
Serve(handler, builders, o) ==
    /\ CanUse
    /\ LET r == serve(js, handler, builders, o)
           d == Conn_serve(bare, handler, builders, o)
       IN /\ gone' = r.conn
          /\ res' = r.res
          /\ bare' = d.conn
          /\ bres' = d.res
    /\ js' = NoStream
    /\ spc' = "served"
    /\ UNCHANGED <<bindVars, acceptVars>>

\* The caller drops the stream, and the connection inside with it.
DropStream ==
    /\ spc = "live"
    /\ gone' = js.inner
    /\ js' = NoStream
    /\ spc' = "dropped"
    /\ UNCHANGED <<bindVars, acceptVars, res, bare, bres>>

\* One connection arrives, is accepted, and its stream is used.
ArriveS(s, p) == sent = {} /\ nev' = nev /\ Connect(s, p)

\* Two plain listeners are bound, as in the test, and an accepted stream is used.
NextS ==
    \/ Bind("bind")
    \/ ResumeA("ok", <<"h1">>)
    \/ ResumeB("ok", <<"h1">>)
    \/ \E s \in Sources, p \in Payloads : ArriveS(s, p)
    \/ AcceptF
    \/ \E st \in Branches : SelectPoll(st)
    \/ PollBranch
    \/ Wake
    \/ TakeStream
    \/ \E cap \in ReadCaps, o \in PollOutcomes : Read(cap, o)
    \/ \E buf \in WriteBufs, o \in PollOutcomes : Write(buf, o)
    \/ \E o \in PollOutcomes : Flush(o)
    \/ \E o \in PollOutcomes : Shutdown(o)
    \/ \E o \in VersionOutcomes : GetVersion(o)
    \/ \E h \in Handlers, b \in Builders, o \in ServeOutcomes : Serve(h, b, o)
    \/ DropStream

StreamSpec == Init /\ [][NextS]_vars

\* ------------------------------------------------------------------ properties


\* The connections accept has returned, as <<variant, inner connection>>.
Returned == {out[k] : k \in {j \in 1 .. Len(out) : out[j].kind = "ok"}}
Delivered(id) == \E r \in Returned : r.val.conn.inner.id = id
PendingOn(s, id) ==
    \E k \in 1 .. Len(queue[s]) : queue[s][k].kind = "ok" /\ queue[s][k].val.conn.id = id

\* A step of the accept call itself (not of the environment).
AcceptStep == Accept \/ (\E st \in Branches : SelectPoll(st)) \/ PollBranch \/ Wake

\* C1: once both sub-listeners are bound, holdings() of the JoinedAcceptor is
\* a's holdings followed by b's, element for element: same length, same order,
\* duplicates kept.
C1_HoldingsConcat ==
    (subres["a"].kind = "ok" /\ subres["b"].kind = "ok") =>
        LET ha == subres["a"].val
            hb == subres["b"].val
        IN /\ joined.live
           /\ Len(holdings) = Len(ha) + Len(hb)
           /\ \A k \in 1 .. Len(ha) : holdings[k] = ha[k]
           /\ \A k \in 1 .. Len(hb) : holdings[Len(ha) + k] = hb[k]

\* C1 witness: a join of <<h2, h1>> with <<h1>> is bound (h1 occurs on both sides).
C1_Witness ==
    /\ joined.live
    /\ subres["a"] = Ok(<<"h2", "h1">>)
    /\ subres["b"] = Ok(<<"h1">>)
    /\ holdings = <<"h2", "h1", "h1">>

\* C2: a returned connection carries variant A exactly when it arrived on a's
\* endpoint and variant B exactly when it arrived on b's, and its payload is the
\* one sent on that endpoint.
C2_TagMatchesSource ==
    \A r \in Returned :
        \E c \in sent :
            /\ c.id = r.val.conn.inner.id
            /\ c.payload = r.val.conn.inner.payload
            /\ (r.val.conn.variant = "A") <=> (c.src = "a")
            /\ (r.val.conn.variant = "B") <=> (c.src = "b")
            /\ r.val.local_addr = c.src

\* C2 witness: one connection of each endpoint was returned, with different payloads.
C2_Witness ==
    \E r1, r2 \in Returned :
        /\ r1.val.conn.variant = "A" /\ r1.val.conn.inner.payload = 50
        /\ r2.val.conn.variant = "B" /\ r2.val.conn.inner.payload = 100

\* One connection was made to each endpoint and nothing else happened on them.
OneEach ==
    /\ nev = 2
    /\ Cardinality(sent) = 2
    /\ \A s \in Sources : \E c \in sent : c.src = s

SumPayloads(S) == LET l == CHOOSE q \in [1 .. 2 -> S] : {q[1], q[2]} = S
                  IN l[1].payload + l[2].payload

\* C3: with one connection made to each endpoint and no failure, accept returns
\* each of them once: no source is returned twice, while fewer than two were
\* returned the rest is still pending and the accept loop can take a step, and
\* once two were returned their payloads are the two sent (50 + 100 = 150).
C3_BothReturned ==
    OneEach =>
        /\ \A k \in 1 .. Len(out) : out[k].kind = "ok"
        /\ \A j, k \in 1 .. Len(out) :
               j # k => out[j].val.conn.variant # out[k].val.conn.variant
        /\ Len(out) < 2 =>
               /\ \A c \in sent : Delivered(c.id) \/ PendingOn(c.src, c.id)
               /\ ENABLED AcceptStep
        /\ Len(out) = 2 =>
               out[1].val.conn.inner.payload + out[2].val.conn.inner.payload
                   = SumPayloads(sent)

\* C3 witness: 50 was sent to a and 100 to b, and two accepts returned both.
C3_Witness ==
    /\ OneEach
    /\ Len(out) = 2
    /\ \E c \in sent : c.src = "a" /\ c.payload = 50
    /\ \E c \in sent : c.src = "b" /\ c.payload = 100
    /\ out[1].val.conn.inner.payload + out[2].val.conn.inner.payload = 150

\* C4: in an accept loop no source starves: a connection pending on either
\* source is eventually returned by accept, also while the other source has a
\* result ready at every call.
C4_NoStarvation ==
    \A id \in LoopIds : (\E s \in Sources : PendingOn(s, id)) ~> Delivered(id)

\* C4 witness: accept returned a connection of b (resp. a) while a (resp. b)
\* had a connection ready.
C4_Witness ==
    \E s \in Sources : \E r \in Returned :
        /\ \E c \in sent : c.id = r.val.conn.inner.id /\ c.src = s
        /\ \E id \in ConnIds : PendingOn(Other(s), id)
        /\ \E id \in ConnIds : PendingOn(s, id)

\* C5: when a binds and b's try_bind fails, try_bind returns b's error, no
\* JoinedAcceptor exists, and the caller holds no acceptor: it has no holdings
\* to read and no accept to call.
C5_BFailsNoAcceptor ==
    (subres["a"].kind = "ok" /\ subres["b"].kind = "err") =>
        /\ tb = Err(subres["b"].err)
        /\ entry = "try_bind" => ret = tb
        /\ ret.kind # "ok"
        /\ ~joined.live
        /\ holdings = <<>>
        /\ ~ENABLED Accept
        /\ apc = "idle" /\ out = <<>> /\ sent = {}

\* C5 witness: a bound with holdings, b failed with AddrInUse, try_bind returned.
C5_Witness ==
    /\ entry = "try_bind"
    /\ lpc = "done"
    /\ subres["a"] = Ok(<<"h2", "h1">>)
    /\ subres["b"] = Err("AddrInUse")
    /\ ret = Err("AddrInUse")

\* C6: try_bind invokes each sub-listener's try_bind at most once, b's only
\* after a's has resolved to Ok; when a's resolves to an error that error is
\* returned at once and b's try_bind is never invoked.
C6_BindOrder ==
    /\ \A s \in Sources : calls[s] <= 1
    /\ calls["b"] > 0 => subres["a"].kind = "ok"
    /\ sub["b"] # "unbound" => subres["a"].kind = "ok"
    /\ subres["a"].kind = "err" =>
           /\ lpc = "done"
           /\ tb = Err(subres["a"].err)
           /\ calls["b"] = 0
           /\ sub["b"] = "unbound"
           /\ subres["b"] = NoResult

\* C6 witness: a's try_bind failed and the call is over with b never bound.
C6_Witness ==
    /\ subres["a"] = Err("PermissionDenied")
    /\ lpc = "done"
    /\ calls = [s \in Sources |-> IF s = "a" THEN 1 ELSE 0]
    /\ sub["b"] = "unbound"

\* What try_bind returns for given results of the two sub-listeners.
TryBindOf(ra, rb) ==
    IF ra.kind = "err" THEN Err(ra.err)
    ELSE IF rb.kind # "ok" THEN Err(rb.err)
    ELSE Ok([live |-> TRUE, holdings |-> ra.val \o rb.val])

\* What the sub-listeners resolved to determines a finished call.
SubResolved == subres["a"].kind = "err" \/ subres["b"].kind # "none"

\* C7: bind is try_bind then unwrap: for the same results of the sub-listeners,
\* try_bind returns some r, and bind returns the acceptor of r when r is Ok and
\* panics, returning nothing, exactly when r is an error (a's or b's).
C7_BindIsTryBindUnwrap ==
    /\ lpc # "done" => ret = NoResult
    /\ lpc = "done" =>
           /\ SubResolved
           /\ entry = "try_bind" => ret = TryBindOf(subres["a"], subres["b"])
           /\ entry = "bind" =>
                  LET r == TryBindOf(subres["a"], subres["b"])
                  IN /\ r.kind = "ok" => ret = r /\ ret.val = joined
                     /\ r.kind = "err" => ret.kind = "panic" /\ ~joined.live
                     /\ ret.kind = "panic" <=> r.kind = "err"

\* C7 witness: bind panicked on b's error.
C7_Witness ==
    /\ entry = "bind"
    /\ lpc = "done"
    /\ subres["a"].kind = "ok"
    /\ subres["b"] = Err("AddrInUse")
    /\ ret.kind = "panic"

\* accept returned an error in this step.
ErrReturned == Len(out') = Len(out) + 1 /\ out'[Len(out')].kind = "err"

\* C8: when accept returns an error, it is the error the winning source's accept
\* resolved to, returned unchanged and alone; only the winner's queue lost that
\* result, and the other source keeps everything it had ready.
C8_ErrorFromWinner ==
    [][ErrReturned =>
        \E s \in Sources :
            /\ queue[s] # <<>>
            /\ Head(queue[s]).kind = "err"
            /\ out' = Append(out, Err(Head(queue[s]).err))
            /\ queue'[s] = Tail(queue[s])
            /\ queue'[Other(s)] = queue[Other(s)]
            /\ held' = NoHeld]_vars

\* C8 witness: accept returned an error while the results still ready are
\* connections only.
C8_Witness ==
    /\ out # <<>>
    /\ out[Len(out)] = Err("TooManyFiles")
    /\ \E s \in Sources : queue[s] # <<>>
    /\ \A s \in Sources : \A k \in 1 .. Len(queue[s]) : queue[s][k].kind = "ok"

\* Every connection made is ready on its source or was returned by accept.
NothingLost == \A c \in sent : PendingOn(c.src, c.id) \/ Delivered(c.id)

\* C9: wherever an accept call can be dropped, it holds no result taken from a
\* source, and dropping it leaves both queues as they were: every connection
\* made is still ready on its source or was returned.
C9_CancelLosesNothing ==
    /\ [](apc \in {"woken", "suspended"} => held = NoHeld)
    /\ [][Cancel => (queue' = queue /\ out' = out /\ NothingLost')]_vars

\* C9 witness: a connection that was pending when a call was dropped has been
\* returned by a later call.
C9_Witness ==
    /\ \E id \in cancelled : Delivered(id)
    /\ apc = "idle"

\* How often connection id occurs in a sequence of results.
Occurs(q, id) ==
    Cardinality({k \in 1 .. Len(q) : q[k].kind = "ok" /\ q[k].val.conn.id = id})
OccursOut(id) ==
    Cardinality({k \in 1 .. Len(out) : out[k].kind = "ok" /\ out[k].val.conn.inner.id = id})

\* Each connection made is in exactly one place: once in its own source's queue, or
\* once among the results returned.
Conservation ==
    /\ \A c \in sent :
           /\ Occurs(queue[c.src], c.id) + OccursOut(c.id) = 1
           /\ Occurs(queue[Other(c.src)], c.id) = 0
    /\ \A r \in Returned : \E c \in sent : c.id = r.val.conn.inner.id

\* C10: a step in which accept returns takes exactly one result, the head of one
\* source's queue, and leaves the other queue alone; nothing is kept from a
\* call once it is over; so every connection made is pending on its own source
\* or was returned exactly once.
C10_OneResultPerCall ==
    /\ []Conservation
    /\ [](apc = "idle" => held = NoHeld /\ polled = {})
    /\ [][Len(out') = Len(out) + 1 =>
            \E s \in Sources :
                /\ queue[s] # <<>>
                /\ queue' = [queue EXCEPT ![s] = Tail(@)]
                /\ out'[Len(out')].kind = Head(queue[s]).kind]_vars

\* C10 witness: two calls returned one connection of each source, the second
\* having been left pending by the first, and a third is still pending.
C10_Witness ==
    /\ Len(out) = 2
    /\ out[1].kind = "ok" /\ out[2].kind = "ok"
    /\ out[1].val.conn.variant # out[2].val.conn.variant
    /\ out[2].val.conn.inner.id < out[1].val.conn.inner.id
    /\ \E s \in Sources : queue[s] # <<>>

\* accept returned a connection in this step.
OkReturned == Len(out') = Len(out) + 1 /\ out'[Len(out')].kind = "ok"

\* C12: the Accepted value accept returns has the local and remote address of
\* the Accepted value the winning source's accept produced, and wraps that
\* value's connection unchanged: only the connection's type (its variant tag)
\* is new.
C12_MetadataPreserved ==
    [][OkReturned =>
        \E s \in Sources :
            /\ queue[s] # <<>>
            /\ Head(queue[s]).kind = "ok"
            /\ queue'[s] = Tail(queue[s])
            /\ LET from == Head(queue[s]).val
                   to == out'[Len(out')].val
               IN /\ DOMAIN to = DOMAIN from
                  /\ to.local_addr = from.local_addr
                  /\ to.remote_addr = from.remote_addr
                  /\ to.conn.inner = from.conn]_vars

\* C12 witness: a connection accepted on b's endpoint was returned with b's
\* local address and the peer's remote address.
C12_Witness ==
    \E r \in Returned :
        /\ r.val.conn.variant = "B"
        /\ r.val.local_addr = "b"
        /\ r.val.remote_addr = "peer"

\* The source whose connections carry variant v.
VariantSource(v) == IF v = "A" THEN "a" ELSE "b"

\* The positions of `out` holding a connection tagged for source s.
ReturnedAt(s) ==
    {k \in 1 .. Len(out) : out[k].kind = "ok" /\ VariantSource(out[k].val.conn.variant) = s}

\* The positions of s's queue holding a connection.
QueuedAt(s) == {k \in 1 .. Len(queue[s]) : queue[s][k].kind = "ok"}

\* C19: per source, arrival order is kept. In a run of Spec connections are
\* numbered in the order they are made, so: the connections returned with a
\* source's tag appear in increasing order, each of them was made before every
\* connection still queued on that source, and the queue itself is in order,
\* whatever the other source's results, errors and dropped calls in between.
C19_SourceOrderKept ==
    \A s \in Sources :
        /\ \A j, k \in ReturnedAt(s) :
               j < k => out[j].val.conn.inner.id < out[k].val.conn.inner.id
        /\ \A j \in ReturnedAt(s) : \A k \in QueuedAt(s) :
               out[j].val.conn.inner.id < queue[s][k].val.conn.id
        /\ \A j, k \in QueuedAt(s) :
               j < k => queue[s][j].val.conn.id < queue[s][k].val.conn.id

\* C19 witness: two connections of a were returned in arrival order with an
\* accept failure returned between them, after a call was dropped.
C19_Witness ==
    /\ Len(out) = 3
    /\ ReturnedAt("a") = {1, 3}
    /\ out[2].kind = "err"
    /\ out[1].val.conn.inner.id = 1
    /\ out[3].val.conn.inner.id = 2
    /\ cancelled # {}

\* Both sources have a result ready.
BothReady == \A s \in Sources : queue[s] # <<>>

\* C17: with both sources ready the winner is not fixed. A poll of the select!
\* may begin at either branch, and a poll that begins at a branch whose source
\* is ready returns that source's oldest result and only that: the other
\* source's queue is left as it was. So from a call made with both ready, both
\* 'a's result returned, b's pending' and 'b's returned, a's pending' can follow.
C17_EitherMayWin ==
    /\ [](apc = "woken" => \A st \in Branches : ENABLED SelectPoll(st))
    /\ [][(apc = "polling" /\ polled = {} /\ BothReady /\ nev' = nev) =>
            LET s == BranchSource(start)
            IN /\ apc' = "idle"
               /\ Len(out') = Len(out) + 1
               /\ out'[Len(out')].kind = Head(queue[s]).kind
               /\ out'[Len(out')].kind = "ok" =>
                      /\ out'[Len(out')].val.conn.inner = Head(queue[s]).val.conn
                      /\ VariantSource(out'[Len(out')].val.conn.variant) = s
               /\ queue'[s] = Tail(queue[s])
               /\ queue'[Other(s)] = queue[Other(s)]]_vars

\* C17 witness: with a connection made to a and then one to b, the one call so
\* far returned b's, and a's is still pending.
C17_Witness ==
    /\ nev = 2
    /\ Len(out) = 1
    /\ ReturnedAt("b") = {1}
    /\ out[1].val.conn.inner.id = 2
    /\ QueuedAt("a") = {1}
    /\ queue["a"][1].val.conn.id = 1
    /\ cancelled = {}

\* accept has returned an error at some point.
HasErr == \E k \in 1 .. Len(out) : out[k].kind = "err"

\* C14: an error accept returned leaves the acceptor usable. After it, accept
\* can be called again whenever no call is in flight; no connection made is
\* lost; and a poll that reaches a source whose oldest result is a connection
\* returns that connection, tagged, exactly as before any error.
C14_ErrorDoesNotPoison ==
    /\ []((HasErr /\ apc = "idle") => ENABLED Accept)
    /\ [](HasErr => NothingLost)
    /\ [][(HasErr /\ apc = "polling" /\ nev' = nev
              /\ queue[BranchSource(NextBranch)] # <<>>
              /\ Head(queue[BranchSource(NextBranch)]).kind = "ok") =>
            /\ OkReturned
            /\ out'[Len(out')].val.conn.inner = Head(queue[BranchSource(NextBranch)]).val.conn
            /\ apc' = "idle"]_vars

\* C14 witness: the first call returned an error and the second a connection of b.
C14_Witness ==
    /\ Len(out) = 2
    /\ out[1].kind = "err"
    /\ ReturnedAt("b") = {2}
    /\ apc = "idle"

\* C15: the holdings of a JoinedAcceptor are those try_bind computed and put
\* in its result, in every state from then on: no step of any accept call
\* (returning a connection, returning an error, suspended, dropped) and no
\* step of the environment changes what holdings() returns.
C15_HoldingsFixed ==
    /\ [](joined.live => (tb.kind = "ok" /\ holdings = tb.val.holdings))
    /\ [][joined.live => (joined'.live /\ holdings' = holdings)]_vars

\* C15 witness: after calls that returned a connection, returned an error and
\* were dropped, holdings() is still the chain computed at bind time.
C15_Witness ==
    /\ joined.live
    /\ subres["a"] = Ok(<<"h2", "h1">>)
    /\ subres["b"] = Ok(<<"h1">>)
    /\ holdings = <<"h2", "h1", "h1">>
    /\ HasErr
    /\ Returned # {}
    /\ cancelled # {}

\* The ways a sub-acceptor's life can go in try_bind: the only end of a bound
\* acceptor is the drop of the value.
SubStates == {"unbound", "binding", "bound", "failed", "dropped"}

\* C16: when a's try_bind has succeeded and b's fails, the step in which b's
\* error arrives is the step in which try_bind returns it: there is no step of
\* the body in between, no further call on a sub-listener, and a's bound
\* acceptor ends as a dropped value, never by a release of the body.
C16_NoExplicitRelease ==
    /\ [](\A s \in Sources : sub[s] \in SubStates)
    /\ []((subres["a"].kind = "ok" /\ subres["b"].kind = "err") =>
              (sub["a"] = "dropped" /\ lpc = "done"))
    /\ [][(lpc = "await_b" /\ subres'["b"].kind = "err") =>
              /\ sub["a"] = "bound"
              /\ sub'["a"] = "dropped"
              /\ lpc' = "done"
              /\ tb' = Err(subres'["b"].err)
              /\ calls' = calls]_vars
    /\ [][sub'["a"] # sub["a"] /\ sub["a"] = "bound" =>
              (lpc = "await_b" /\ subres'["b"].kind = "err")]_vars

\* C16 witness: a was bound, b failed with PermissionDenied, try_bind has
\* returned the error and a's acceptor is gone with the dropped value.
C16_Witness ==
    /\ entry = "try_bind"
    /\ subres["a"] = Ok(<<"h1">>)
    /\ subres["b"] = Err("PermissionDenied")
    /\ sub["a"] = "dropped"
    /\ sub["b"] = "failed"
    /\ calls = [s \in Sources |-> 1]
    /\ ret = Err("PermissionDenied")

\* The step returns a result from accept.
AcceptReturns == Len(out') = Len(out) + 1

\* The result the step returns is the oldest ready result of source s, which
\* leaves s while the other source is untouched.
ReturnsFrom(s) ==
    /\ ~Idle(s)
    /\ queue'[s] = Tail(queue[s])
    /\ queue'[Other(s)] = queue[Other(s)]
    /\ LET from == Head(queue[s])
           to == out'[Len(out')]
       IN /\ to.kind = from.kind
          /\ from.kind = "err" => to.err = from.err
          /\ from.kind = "ok" => /\ to.val.conn.inner = from.val.conn
                                 /\ VariantSource(to.val.conn.variant) = s

\* C13: accept returns only in a step that takes a ready result from a source,
\* and what it returns is that result; with both sources idle no step returns,
\* and a suspended call stays suspended until a source is ready or the caller
\* drops the call; with one source ready and the other idle the result returned
\* is the ready source's; and a pending call with a ready source goes on to
\* return, unless the caller drops it first.
C13_CompletesWhenReady ==
    /\ [][AcceptReturns => (AcceptPending /\ \E s \in Sources : ReturnsFrom(s))]_vars
    /\ [][(\A s \in Sources : Idle(s)) => ~AcceptReturns]_vars
    /\ [][(apc = "suspended" /\ \A s \in Sources : Idle(s)) =>
              (apc' \in {"suspended", "idle"} /\ out' = out)]_vars
    /\ [][\A s \in Sources :
              (AcceptReturns /\ ~Idle(s) /\ Idle(Other(s))) => ReturnsFrom(s)]_vars
    /\ (AcceptPending /\ \E s \in Sources : ~Idle(s)) ~> (out # <<>> \/ apc = "idle")

\* C13 witness: the call polled both sources while they were idle and is
\* suspended; a connection has since arrived on b alone.
C13_Witness ==
    /\ apc = "suspended"
    /\ polled = Branches
    /\ out = <<>>
    /\ Idle("a")
    /\ Len(queue["b"]) = 1
    /\ queue["b"][1].kind = "ok"
    /\ queue["b"][1].val.conn.payload = TestPayload("b")

\* The connection the stream wraps or, once serve or the drop took it, wrapped.
Wrapped == IF spc = "live" THEN js.inner ELSE gone

\* The step invokes an operation on the stream.
StreamCall == spc = "live" /\ bare'.log # bare.log

\* C11: a JoinedStream and the connection inside it, put through the same
\* calls with the same arguments, stay equal: after every read, write, flush,
\* shutdown, version and serve the wrapped connection is in the state of the
\* bare one, having had the same operations invoked on it with the same
\* arguments, and the call on the stream returned what the call on the bare
\* connection returned. Each call on the stream invokes exactly one operation
\* on the wrapped connection.
C11_StreamIsConnection ==
    /\ [](spc # "none" => (Wrapped = bare /\ res = bres))
    /\ [][StreamCall =>
              /\ Len(Wrapped'.log) = Len(Wrapped.log) + 1
              /\ Wrapped'.log[Len(Wrapped'.log)] = bare'.log[Len(bare'.log)]
              /\ SubSeq(Wrapped'.log, 1, Len(Wrapped.log)) = Wrapped.log]_vars

\* C11 witness: a JoinedStream::B read the four bytes the client sent, had a
\* buffer written to it, and was served with the handler and configuration
\* the caller passed.
C11_Witness ==
    /\ spc = "served"
    /\ out[1].val.conn.variant = "B"
    /\ Len(gone.log) = 3
    /\ gone.log[1] = Called("poll_read", 4, <<>>, "", "")
    /\ gone.log[2] = Called("poll_write", 0, <<8, 9>>, "", "")
    /\ gone.log[3] = Called("serve", 0, <<>>, "fallback", "tuned")
    /\ gone.tx = <<8, 9>>
    /\ gone.payload = 100
    /\ res = IoRes("ready_ok", 0, <<>>, "")

\* C18: while the caller has the stream, it is of the variant accept built it
\* with and wraps the connection accept put in it; no read, write, flush,
\* shutdown or version call changes the variant or the connection wrapped; the
\* stream goes away only by serve or by being dropped, and then for good.
C18_VariantFixed ==
    /\ [](spc = "live" =>
              /\ js.variant \in {"A", "B"}
              /\ js.variant = out[1].val.conn.variant
              /\ js.inner.id = out[1].val.conn.inner.id
              /\ VariantSource(js.variant) = out[1].val.local_addr)
    /\ [](spc # "live" => js = NoStream)
    /\ [][(spc = "live" /\ spc' = "live") =>
              (js'.variant = js.variant /\ js'.inner.id = js.inner.id)]_vars
    /\ [][(spc = "live" /\ spc' # "live") =>
              /\ spc' \in {"served", "dropped"}
              /\ gone'.id = js.inner.id
              /\ (spc' = "served") = (gone'.log # js.inner.log)]_vars
    /\ [][(spc = "served" \/ spc = "dropped") =>
              (spc' = spc /\ js' = js /\ gone' = gone)]_vars

\* C18 witness: a JoinedStream::A after a shutdown, a version and a read call.
C18_Witness ==
    /\ spc = "live"
    /\ js.variant = "A"
    /\ out[1].val.local_addr = "a"
    /\ Len(js.inner.log) = 3
    /\ js.inner.log[1].op = "poll_shutdown"
    /\ js.inner.log[2].op = "version"
    /\ js.inner.log[3].op = "poll_read"
    /\ js.inner.shut
    /\ js.inner.ver = "HTTP_2"

====
